---- MODULE Spec2Model ----
(***************************************************************************)
(* Model of scrapers.py: BeautifulSoupHtmlParser, HseEduProgramsWebScraper *)
(* and HseRatingGetter.                                                    *)
(*                                                                         *)
(* A Python str is a sequence of symbols.  A symbol is one character, or   *)
(* an opaque run of characters that holds no whitespace and no '/' (a      *)
(* word such as "Moskva" or "www.hse.ru"), so that strip, replace, split   *)
(* and find act on sequences the way they act on the str.                  *)
(***************************************************************************)
EXTENDS Integers, Sequences, FiniteSets, TLC

VARIABLES
    \* HseEduProgramsWebScraper instance
    faculties,   \* self.faculties: dict in insertion order, <<[name, progs]>>
    programs,    \* self.programs: dict name -> code
    loaded,      \* self.loaded
    \* the environment of get()
    calls,       \* number of get() calls made
    fetches,     \* number of requests.get of the listing page
    listed,      \* self.faculties at line 97 of the last get(), NotListed if not reached
    dropped,     \* names of the items the last finished loop passed over
    fresh,       \* what a new instance would return for the last response
    raised,      \* the exception the last get() raised, or NoError
    result,      \* the pair the last get() returned, <<>> when it raised
    \* sanitize_str applied repeatedly
    s,           \* the argument of the first application
    cleaned,     \* the successive values sanitize_str returned
    \* HseRatingGetter instance and its last __call__
    url_code,    \* self.url_code
    rating       \* the __call__ made: its arguments, the responses, the urls
                 \* fetched, the exception raised, the rows returned

vars == <<faculties, programs, loaded, calls, fetches, listed, dropped, fresh,
          raised, result,
          s, cleaned, url_code, rating>>

scraperVars == <<faculties, programs, loaded, calls, fetches, listed, dropped,
                 fresh, raised, result>>
sanitizeVars == <<s, cleaned>>
ratingVars == <<url_code, rating>>

None == "None"
NoError == "NoError"

-----------------------------------------------------------------------------
(* Strings *)

SP == " "
TAB == "\t"
NBSP == "NBSP"    \* the character '\xa0'

\* The characters str.isspace() holds of: Python's strip() with no argument
\* removes Unicode whitespace, and '\xa0' is whitespace.
Whitespace == {SP, TAB, NBSP}

RECURSIVE lstrip(_, _)
lstrip(str, chars) ==
    IF str # <<>> /\ Head(str) \in chars THEN lstrip(Tail(str), chars) ELSE str

RECURSIVE rstrip(_, _)
rstrip(str, chars) ==
    IF str # <<>> /\ str[Len(str)] \in chars
    THEN rstrip(SubSeq(str, 1, Len(str) - 1), chars)
    ELSE str

\* str.strip(): chars is the set of characters removed from both ends.
strip(str, chars) == rstrip(lstrip(str, chars), chars)

\* str.replace(old, new) for one-character old and new.
replace(str, old, new) ==
    [k \in 1..Len(str) |-> IF str[k] = old THEN new ELSE str[k]]

\* sanitize_str with s.strip(' ') in place of s.strip(): a non-breaking space
\* at an end survives the strip and becomes an ordinary space at that end.
sanitize_str_ascii(str) == replace(strip(str, {SP}), NBSP, SP)

\* s.strip().replace('\xa0', ' ')
sanitize_str(str) == replace(strip(str, Whitespace), NBSP, SP)

\* haystack.find(needle): the lowest 0-based index where needle occurs, or -1.
find(haystack, needle) ==
    LET n == Len(haystack)
        m == Len(needle)
        hits == {k \in 0..(n - m) : SubSeq(haystack, k + 1, k + m) = needle}
    IN  IF hits = {} THEN -1
        ELSE CHOOSE k \in hits : \A h \in hits : k <= h

\* str.split('/'): the pieces between the separators, empty pieces kept.
RECURSIVE splitFrom(_, _, _)
splitFrom(str, sep, piece) ==
    IF str = <<>> THEN <<piece>>
    ELSE IF Head(str) = sep
         THEN <<piece>> \o splitFrom(Tail(str), sep, <<>>)
         ELSE splitFrom(Tail(str), sep, Append(piece, Head(str)))

split(str, sep) == splitFrom(str, sep, <<>>)

\* All strings over alphabet of length at most n.
StringsUpTo(alphabet, n) == UNION {[1..k -> alphabet] : k \in 0..n}

-----------------------------------------------------------------------------
(* sanitize_str on its own *)

MaxStrLen == 4
MaxApply == 2

SanitizeAlphabet == {SP, TAB, NBSP, "t", "e"}

\* " \xa0 text \xa0 "
PaddedText == <<SP, NBSP, SP, "t", "e", "x", "t", SP, NBSP, SP>>

SanitizeInputs == StringsUpTo(SanitizeAlphabet, MaxStrLen) \cup {PaddedText}

\* {} as a dict whose order is not read
EmptyDict == [k \in {} |-> None]

\* HseEduProgramsWebScraper.__init__, and no get() made
ScraperIdle ==
    /\ faculties = <<>>
    /\ programs = EmptyDict
    /\ loaded = FALSE
    /\ calls = 0
    /\ fetches = 0
    /\ listed = <<>>
    /\ dropped = {}
    /\ fresh = <<>>
    /\ raised = NoError
    /\ result = <<>>

SanitizeIdle ==
    /\ s = <<>>
    /\ cleaned = <<>>

\* rating before any __call__
NoCall ==
    [called |-> FALSE, rating_name |-> <<>>, course |-> 0,
     index |-> <<>>, filtered |-> <<>>, fetched |-> <<>>,
     raised |-> NoError, returned |-> FALSE, res |-> <<>>]

RatingIdle ==
    /\ url_code = None
    /\ rating = NoCall

InitSanitize ==
    /\ s \in SanitizeInputs
    /\ cleaned = <<>>
    /\ ScraperIdle
    /\ RatingIdle

\* One more application: sanitize_str(s), then sanitize_str of what it returned.
Sanitize ==
    /\ Len(cleaned) < MaxApply
    /\ cleaned' = Append(cleaned,
                         sanitize_str(IF cleaned = <<>> THEN s
                                      ELSE cleaned[Len(cleaned)]))
    /\ UNCHANGED <<s, scraperVars, ratingVars>>

NextSanitize == Sanitize

SpecSanitize == InitSanitize /\ [][NextSanitize]_vars

\* C8: sanitize_str is idempotent: applied to a value it returned, it returns
\* that value again; and sanitize_str(" \xa0 text \xa0 ") is "text".
C8_SanitizeIdempotent ==
    /\ \A k \in 2..Len(cleaned) : cleaned[k] = cleaned[k - 1]
    /\ (s = PaddedText /\ cleaned # <<>>) => cleaned[1] = <<"t", "e", "x", "t">>

\* sanitize_str was applied twice to a string with a non-breaking space at an
\* end and one in the middle, and the first application changed it.
C8_Witness ==
    /\ Len(cleaned) >= 2
    /\ Len(s) >= 4
    /\ s[1] = NBSP
    /\ \E k \in 3..(Len(s) - 1) :
          /\ s[k] = NBSP
          /\ ~(s[k - 1] \in Whitespace)
          /\ ~(s[k + 1] \in Whitespace)
    /\ cleaned[1] # s
    /\ cleaned[2] = cleaned[1]

-----------------------------------------------------------------------------
(* BeautifulSoupHtmlParser and the listing page *)

OK_RESPONSE_STATUS == 200
NOT_FOUND == 404

TARGET_TOWNS == {<<"Moskva">>}
REGULAR_DOMAINS == {<<"www.hse.ru">>}
BA == <<"ba">>

\* Faculty names of the listing: FEcon and FLaw are unrelated; FEcon occurs in
\* FEconMgmt; FJoint holds FLaw at its start, FEconMgmt at its end and FEcon
\* in its middle.
FEcon == <<"Fakultet", SP, "ekonomiki">>
FEconMgmt == FEcon \o <<SP, "i", SP, "menedzhmenta">>
FLaw == <<"Fakultet", SP, "prava">>
FJoint == FLaw \o <<",", SP>> \o FEconMgmt

\* href="https://www.hse.ru/ba/<code>/"
Href(code) == <<"https:", "/", "/", "www.hse.ru", "/", "ba", "/", code, "/">>

\* One div.edu-programm__item: the texts of the spans of its first
\* div.edu-programm__unit, and its <a> elements (program.a is the first, or
\* None when there is none).
Item(town, faculty, href, text) ==
    [spans |-> <<town, faculty>>, anchors |-> <<[href |-> href, text |-> text]>>]

\* Items the condition of lines 88-89 lets through; the first with the
\* padding and the '\xa0' of the real page.
GoodItems ==
    { Item(<<NBSP, "Moskva", SP>>, <<SP, "Fakultet", NBSP, "ekonomiki">>,
           Href("econ"), <<"P1", NBSP>>),
      Item(<<"Moskva">>, FLaw, Href("law"), <<"P2">>),
      Item(<<"Moskva">>, FJoint, Href("joint"), <<"P3">>) }

\* One more, whose faculty lies between FEcon and FJoint.
ChainItems ==
    { Item(<<"Moskva">>, FEconMgmt, Href("mgmt"), <<"P4">>) }

\* Items the condition passes over: another town; no 'ba' segment; another
\* domain.
OtherItems ==
    { Item(<<"Perm">>, FEcon, Href("perm"), <<"Q1">>),
      Item(<<"Moskva">>, FLaw,
           <<"https:", "/", "/", "www.hse.ru", "/", "ma", "/", "law", "/">>,
           <<"Q2">>),
      Item(<<"Moskva">>, FLaw,
           <<"https:", "/", "/", "spb.hse.ru", "/", "ba", "/", "law", "/">>,
           <<"Q3">>) }

\* An item with one span in its unit: ('span')[1] raises IndexError.
OneSpanItems ==
    { [spans |-> <<<<"Moskva">>>>,
       anchors |-> <<[href |-> Href("x"), text |-> <<"Q4">>]>>] }

\* An item with href="ba/x": a 'ba' segment and no url[2].
ShortHrefItems ==
    { Item(<<"Moskva">>, FLaw, <<"ba", "/", "x">>, <<"Q5">>) }

\* An item with no <a>: program.a is None and program.a['href'] raises
\* TypeError.
NoAnchorItems ==
    { [spans |-> <<<<"Moskva">>, FLaw>>, anchors |-> <<>>] }

\* The items of the pages one get() of a new instance is checked on.
ListingItems ==
    GoodItems \cup ChainItems \cup OtherItems \cup OneSpanItems
    \cup ShortHrefItems \cup NoAnchorItems

\* The items of the pages a sequence of get() calls is checked on.
RetryItems == GoodItems \cup OneSpanItems

MaxItems == 3

\* What requests.get(URL) can answer: a status other than 200; a document
\* without div#education-programs__list; a document with the list and up to
\* MaxItems of the given items in it.
PagesOf(items) ==
    {[status |-> NOT_FOUND, list |-> FALSE, items |-> <<>>],
     [status |-> OK_RESPONSE_STATUS, list |-> FALSE, items |-> <<>>]}
    \cup {[status |-> OK_RESPONSE_STATUS, list |-> TRUE, items |-> is] :
            is \in StringsUpTo(items, MaxItems)}

ListingPages == PagesOf(ListingItems)

RetryPages == PagesOf(RetryItems)

\* BeautifulSoupHtmlParser.__call__: the exception it raises for a response.
parser(response) ==
    IF response.status # OK_RESPONSE_STATUS THEN "BadResponseError" ELSE NoError

-----------------------------------------------------------------------------
(* HseEduProgramsWebScraper.get *)

Keys(fac) == {fac[k].name : k \in 1..Len(fac)}

\* The position of key name in the dict fac (name is a key).
IndexOf(fac, name) == CHOOSE k \in 1..Len(fac) : fac[k].name = name

\* The dict as a mapping, insertion order forgotten (dict.__eq__).
AsMap(fac) == [n \in Keys(fac) |-> fac[IndexOf(fac, n)].progs]

\* programs[name] = code
SetItem(dict, key, value) ==
    [k \in DOMAIN dict \cup {key} |-> IF k = key THEN value ELSE dict[k]]

\* if faculty not in self.faculties: self.faculties[faculty] = set()
\* self.faculties[faculty].add(name)
AddProgram(fac, faculty, name) ==
    IF faculty \in Keys(fac)
    THEN [fac EXCEPT ![IndexOf(fac, faculty)].progs = @ \cup {name}]
    ELSE Append(fac, [name |-> faculty, progs |-> {name}])

\* 'ba' in url
HasBa(url) == \E k \in 1..Len(url) : url[k] = BA

\* The condition of lines 88-89 without its first conjunct: any town passes.
Accepted_anytown(town, url) ==
    IF ~HasBa(url) THEN "no"
    ELSE IF Len(url) < 3 THEN "IndexError"
    ELSE IF url[3] \in REGULAR_DOMAINS THEN "yes" ELSE "no"

\* The condition of lines 88-89, its conjuncts evaluated left to right as
\* `and` does: url[2] is read only when the town and the 'ba' segment passed,
\* and raises IndexError when url has no third segment.
Accepted(town, url) ==
    IF ~(town \in TARGET_TOWNS) THEN "no"
    ELSE IF ~HasBa(url) THEN "no"
    ELSE IF Len(url) < 3 THEN "IndexError"
    ELSE IF url[3] \in REGULAR_DOMAINS THEN "yes" ELSE "no"

\* Lines 90-95, for an item the condition let through.
Record(st, faculty, name, code) ==
    [st EXCEPT !.faculties = AddProgram(@, faculty, name),
               !.programs = SetItem(@, name, code)]

\* Lines 88-95, once the spans and the <a> were found; verdict is what the
\* condition gave.
Filter(st, verdict, faculty, url, a) ==
    IF verdict = "IndexError" THEN [st EXCEPT !.raised = "IndexError"]
    ELSE IF verdict = "yes"
    THEN Record(st, faculty, sanitize_str(a.text), url[Len(url) - 1])
    ELSE [st EXCEPT !.dropped = @ \cup {sanitize_str(a.text)}]

\* Lines 87-95, once the spans were found.
Visit(st, town, faculty, url, a) ==
    Filter(st, Accepted(town, url), faculty, url, a)

\* The body of the loop over the items. st is [faculties, programs, raised,
\* dropped]: the two dicts, the exception raised so far, and the names of the
\* items the condition passed over (kept for the properties; the code keeps
\* no such set).
ProcessItem(st, item) ==
    IF Len(item.spans) < 2 THEN [st EXCEPT !.raised = "IndexError"]
    ELSE IF item.anchors = <<>> THEN [st EXCEPT !.raised = "TypeError"]
    ELSE Visit(st, sanitize_str(item.spans[1]), sanitize_str(item.spans[2]),
               split(item.anchors[1].href, "/"), item.anchors[1])

\* for program in programs_html('div', 'edu-programm__item'): stops at the
\* first item that raises.
RECURSIVE ProcessItems(_, _)
ProcessItems(st, items) ==
    IF items = <<>> \/ st.raised # NoError THEN st
    ELSE ProcessItems(ProcessItem(st, Head(items)), Tail(items))

\* Line 102 with the operands of find exchanged.
IsAlias_reversed(faculty_i, faculty_j) ==
    faculty_i # faculty_j /\ find(faculty_j, faculty_i) # -1

\* Line 102 as its comment words it: faculty_j is a prefix of faculty_i.
IsAlias_prefix(faculty_i, faculty_j) ==
    faculty_i # faculty_j /\ find(faculty_i, faculty_j) = 0

\* Line 102: faculty_i != faculty_j and faculty_i.find(faculty_j) != -1
IsAlias(faculty_i, faculty_j) ==
    faculty_i # faculty_j /\ find(faculty_i, faculty_j) # -1

\* The two nested loops over self.faculties, pair number k of n * n in the
\* order of the dict: faculty_i's programs are added to faculty_j's and
\* faculty_i is appended to duplicates.
RECURSIVE MergePairs(_, _, _)
MergePairs(fac, dups, k) ==
    IF k > Len(fac) * Len(fac) THEN [faculties |-> fac, duplicates |-> dups]
    ELSE IF IsAlias(fac[((k - 1) \div Len(fac)) + 1].name,
                    fac[((k - 1) % Len(fac)) + 1].name)
    THEN MergePairs([fac EXCEPT ![((k - 1) % Len(fac)) + 1].progs =
                         @ \cup fac[((k - 1) \div Len(fac)) + 1].progs],
                    Append(dups, fac[((k - 1) \div Len(fac)) + 1].name),
                    k + 1)
    ELSE MergePairs(fac, dups, k + 1)

\* dict.pop(key) of a key of the dict
Pop(fac, key) == SelectSeq(fac, LAMBDA e : e.name # key)

\* for dup in duplicates: self.faculties.pop(dup); pop raises KeyError for
\* a key popped before.
RECURSIVE PopAll(_, _)
PopAll(fac, dups) ==
    IF dups = <<>> THEN [faculties |-> fac, raised |-> NoError]
    ELSE IF Head(dups) \notin Keys(fac) THEN [faculties |-> fac, raised |-> "KeyError"]
    ELSE PopAll(Pop(fac, Head(dups)), Tail(dups))

\* Lines 106-107 on what lines 99-105 left.
PopDuplicates(merged) == PopAll(merged.faculties, merged.duplicates)

\* Lines 99-107.
MergeAliases(fac) == PopDuplicates(MergePairs(fac, <<>>, 1))

\* Lines 97-110 on what the loop over the items left: nothing when it raised.
Finish(st, popped) ==
    [faculties |-> popped.faculties,
     programs |-> st.programs,
     raised |-> popped.raised,
     listed |-> st.faculties,
     dropped |-> st.dropped]

NotListed == <<>>

Unfinished(st) ==
    [faculties |-> st.faculties,
     programs |-> st.programs,
     raised |-> st.raised,
     listed |-> NotListed,
     dropped |-> {}]

AfterLoop(st) ==
    IF st.raised # NoError THEN Unfinished(st)
    ELSE Finish(st, MergeAliases(st.faculties))

\* get() from line 79 on, for the response pg and the dicts fac and progs in
\* self: the dicts it leaves in self, the exception it raises, and for the
\* properties self.faculties as it stood at line 97 (listed) and the names of
\* the items the condition passed over (dropped).
Build(fac, progs, pg) ==
    IF parser(pg) # NoError
    THEN Unfinished([faculties |-> fac, programs |-> progs, raised |-> parser(pg)])
    ELSE IF ~pg.list
    THEN Unfinished([faculties |-> fac, programs |-> progs, raised |-> "IndexError"])
    ELSE AfterLoop(ProcessItems([faculties |-> fac, programs |-> progs,
                                 raised |-> NoError, dropped |-> {}],
                                pg.items))

\* What get() returns to its caller: the dicts of self, order forgotten.
Catalog(fac, progs) == <<AsMap(fac), progs>>

\* What a new instance's get() builds from the response pg, <<>> when it raises.
FreshCatalog(pg) ==
    LET built == Build(<<>>, EmptyDict, pg)
    IN  IF built.raised = NoError THEN Catalog(built.faculties, built.programs)
        ELSE <<>>

MaxCalls == 3

Init ==
    /\ ScraperIdle
    /\ SanitizeIdle
    /\ RatingIdle

\* get() with self.loaded set, had the page been fetched before the test of
\* line 76.
GetLoaded_fetchFirst ==
    /\ calls < MaxCalls
    /\ loaded
    /\ calls' = calls + 1
    /\ fetches' = fetches + 1
    /\ raised' = NoError
    /\ result' = Catalog(faculties, programs)
    /\ UNCHANGED <<faculties, programs, loaded, listed, dropped, fresh>>
    /\ UNCHANGED <<sanitizeVars, ratingVars>>

\* get() with self.loaded set: lines 76-77.
GetLoaded ==
    /\ calls < MaxCalls
    /\ loaded
    /\ calls' = calls + 1
    /\ raised' = NoError
    /\ result' = Catalog(faculties, programs)
    /\ UNCHANGED <<faculties, programs, loaded, fetches, listed, dropped, fresh>>
    /\ UNCHANGED <<sanitizeVars, ratingVars>>

\* get() with self.loaded unset, had line 109 been placed before the build.
GetBuildOn_loadedFirst(pages) ==
    /\ ~loaded
    /\ \E pg \in pages : \E built \in {Build(faculties, programs, pg)} :
         /\ fetches' = fetches + 1
         /\ faculties' = built.faculties
         /\ programs' = built.programs
         /\ raised' = built.raised
         /\ loaded' = TRUE
         /\ result' = IF built.raised = NoError
                      THEN Catalog(built.faculties, built.programs)
                      ELSE <<>>
         /\ listed' = built.listed
         /\ dropped' = built.dropped
         /\ fresh' = FreshCatalog(pg)
    /\ calls' = calls + 1
    /\ UNCHANGED <<sanitizeVars, ratingVars>>

\* get() with self.loaded unset: lines 79-110, for a response among pages.
GetBuildOn(pages) ==
    /\ ~loaded
    /\ \E pg \in pages : \E built \in {Build(faculties, programs, pg)} :
         /\ fetches' = fetches + 1
         /\ faculties' = built.faculties
         /\ programs' = built.programs
         /\ raised' = built.raised
         /\ loaded' = (built.raised = NoError)
         /\ result' = IF built.raised = NoError
                      THEN Catalog(built.faculties, built.programs)
                      ELSE <<>>
         /\ listed' = built.listed
         /\ dropped' = built.dropped
         /\ fresh' = FreshCatalog(pg)
    /\ calls' = calls + 1
    /\ UNCHANGED <<sanitizeVars, ratingVars>>

\* One of a sequence of get() calls on the instance.
GetBuild ==
    /\ calls < MaxCalls
    /\ GetBuildOn(RetryPages)

Next == GetLoaded \/ GetBuild

Spec == Init /\ [][Next]_vars

\* The first get() of a new instance.
GetFirst ==
    /\ calls = 0
    /\ GetBuildOn(ListingPages)

NextListing == GetFirst

SpecListing == Init /\ [][NextListing]_vars

-----------------------------------------------------------------------------
(* Properties of get() *)

\* x occurs in y
Occurs(x, y) == \E k \in 1..(Len(y) - Len(x) + 1) : SubSeq(y, k, k + Len(x) - 1) = x

\* x is a strict substring of y
StrictSubstring(x, y) == x # y /\ Occurs(x, y)

\* The union of the program sets of the dict fac
AllPrograms(fac) == UNION {fac[k].progs : k \in 1..Len(fac)}

\* C1: once a get() has set loaded, every later get() fetches nothing, raises
\* nothing and returns the pair the building get() returned, the dicts
\* untouched; the get() that sets loaded makes exactly one fetch.
C1_CachedAfterLoad ==
    [][/\ loaded =>
            /\ loaded'
            /\ fetches' = fetches
            /\ faculties' = faculties
            /\ programs' = programs
            /\ raised' = NoError
            /\ result' = result
            /\ result' = Catalog(faculties, programs)
       /\ (~loaded /\ loaded') => fetches' = fetches + 1]_vars

\* Two get() calls, the first built a catalog with a merged alias, the second
\* returned it: one fetch in all.
C1_Witness ==
    /\ calls = 2
    /\ fetches = 1
    /\ loaded
    /\ Len(listed) = 2
    /\ Len(faculties) = 1
    /\ result = Catalog(faculties, programs)

\* C2: a get() that raises (BadResponseError or a markup mismatch) leaves
\* loaded unset and returns nothing; the next get() fetches the page again,
\* and sets loaded and returns the catalog when nothing raises.
C2_FailedBuildRetries ==
    [][/\ (calls' = calls + 1 /\ raised' # NoError) =>
            /\ ~loaded'
            /\ result' = <<>>
       /\ (calls' = calls + 1 /\ ~loaded) =>
            /\ fetches' = fetches + 1
            /\ raised' = NoError =>
                 /\ loaded'
                 /\ result' = Catalog(faculties', programs')]_vars

\* A get() raised, the next one fetched again and built a catalog.
C2_Witness ==
    /\ calls = 2
    /\ fetches = 2
    /\ loaded
    /\ raised = NoError
    /\ DOMAIN programs # {}

C4_CatalogInvariant ==
    loaded =>
      /\ \A x \in Keys(faculties) : \A y \in Keys(faculties) : ~StrictSubstring(x, y)
      /\ DOMAIN programs \subseteq AllPrograms(faculties)

\* A catalog built after a failed get(), with an alias merged.
C4_Witness ==
    /\ loaded
    /\ fetches = 2
    /\ Len(listed) > Len(faculties)
    /\ Cardinality(DOMAIN programs) >= 2

\* The town, the url and the name the loop reads from an item with two spans
\* and an <a>.
TownOf(item) == sanitize_str(item.spans[1])
UrlOf(item) == split(item.anchors[1].href, "/")
NameOf(item) == sanitize_str(item.anchors[1].text)

\* The three conditions of the filter, as the specification words them.
Passes(item) ==
    /\ TownOf(item) \in TARGET_TOWNS
    /\ BA \in {UrlOf(item)[k] : k \in 1..Len(UrlOf(item))}
    /\ Len(UrlOf(item)) >= 3
    /\ UrlOf(item)[3] \in REGULAR_DOMAINS

\* C5: an item is recorded in programs and in a faculty's set only if its town
\* is a target town, its url has the 'ba' segment and url[2] is a regular
\* domain (no two items of ListingItems share a name, so the name tells the
\* item); an item of another town changes neither dict and raises nothing.
C5_FilterDropsSilently ==
    \A item \in ListingItems :
      (Len(item.spans) >= 2 /\ item.anchors # <<>>) =>
        /\ ~Passes(item) =>
             /\ NameOf(item) \notin DOMAIN programs
             /\ NameOf(item) \notin AllPrograms(faculties)
        /\ TownOf(item) \notin TARGET_TOWNS =>
             \A after \in {ProcessItem([faculties |-> faculties, programs |-> programs,
                                        raised |-> NoError, dropped |-> {}], item)} :
               /\ after.faculties = faculties
               /\ after.programs = programs
               /\ after.raised = NoError

\* A catalog was built from a page with an item of another town, another item
\* the condition passed over, and one it let through.
C5_Witness ==
    /\ loaded
    /\ <<"Q1">> \in dropped
    /\ Cardinality(dropped) = 2
    /\ DOMAIN programs # {}

\* C9: whatever faculty names the listing yields, alias resolution ends
\* without an error, with loaded set and every faculty that holds another
\* listed name removed.
C9_AliasResolutionCompletes ==
    (calls > 0 /\ raised \notin {"BadResponseError", "IndexError", "TypeError"}) =>
      /\ raised = NoError
      /\ loaded
      /\ \A y \in Keys(faculties) : \A x \in Keys(listed) : ~StrictSubstring(x, y)

\* C10: a get() that raises leaves faculties and programs as they were, and a
\* get() that builds returns what a new instance would build from the same
\* response.
C10_NoPartialData ==
    [][/\ (calls' = calls + 1 /\ raised' # NoError) =>
            /\ faculties' = faculties
            /\ programs' = programs
       /\ (calls' = calls + 1 /\ ~loaded /\ loaded') => result' = fresh']_vars

-----------------------------------------------------------------------------
(* HseRatingGetter *)

\* int and float values. A float is held as a whole number of 1/FloatScale,
\* which is exact for the cells of the model (at most two decimals).
FloatScale == 100
NaN == [type |-> "float", nan |-> TRUE, n |-> 0]
Float(scaled) == [type |-> "float", nan |-> FALSE, n |-> scaled]
Integer(n) == [type |-> "int", nan |-> FALSE, n |-> n]

Digits == <<"0", "1", "2", "3", "4", "5", "6", "7", "8", "9">>
IsDigit(c) == \E d \in 1..10 : Digits[d] = c
DigitValue(c) == (CHOOSE d \in 1..10 : Digits[d] = c) - 1

RECURSIVE Power10(_)
Power10(n) == IF n = 0 THEN 1 ELSE 10 * Power10(n - 1)

\* The number a string of digits writes in base 10.
RECURSIVE Decimal(_)
Decimal(str) ==
    IF str = <<>> THEN 0
    ELSE 10 * Decimal(SubSeq(str, 1, Len(str) - 1)) + DigitValue(str[Len(str)])

AllDigits(str) == \A k \in 1..Len(str) : IsDigit(str[k])

\* Whether int(text) returns: one or more digits (no cell of the model has a
\* sign, an underscore or whitespace).
IntParses(text) == text # <<>> /\ AllDigits(text)

\* Whether float(text) returns: digits with at most one point and at least
\* one digit (no cell of the model has a sign, an exponent, "nan" or "inf").
FloatParses(text) ==
    /\ \A k \in 1..Len(text) : IsDigit(text[k]) \/ text[k] = "."
    /\ Cardinality({k \in 1..Len(text) : text[k] = "."}) <= 1
    /\ \E k \in 1..Len(text) : IsDigit(text[k])

\* float(text) of a text it parses, in 1/FloatScale.
FloatOf(text) ==
    LET parts == split(text, ".")
        whole == parts[1]
        frac == IF Len(parts) > 1 THEN parts[2] ELSE <<>>
    IN  Float(Decimal(whole) * FloatScale
              + (Decimal(frac) * FloatScale) \div Power10(Len(frac)))

\* text[:-1]
DropLast(text) == SubSeq(text, 1, Len(text) - 1)

\* The value or the exception of a conversion: [raised, value].
Raise(error) == [raised |-> error, value |-> NaN]
Value(v) == [raised |-> NoError, value |-> v]

ToFloat(text) == IF FloatParses(text) THEN Value(FloatOf(text)) ELSE Raise("ValueError")
ToInt(text) == IF IntParses(text) THEN Value(Integer(Decimal(text))) ELSE Raise("ValueError")

\* Lines 161-164: the mean grade of a row.
GradeMid(text) == IF text # <<>> THEN ToFloat(text) ELSE Value(NaN)

\* Lines 165-168 without the test for the empty cell.
GradeMin_untested(text) == ToInt(text)

\* Lines 165-168: the minimal grade of a row.
GradeMin(text) == IF text # <<>> THEN ToInt(text) ELSE Value(NaN)

\* Line 169: the percentile of a row.
Percentile(text) == ToFloat(DropLast(text))

\* Line 170: the GPA of a row.
Gpa(text) == ToFloat(text)

\* Lines 159-170 for one tr, td being the texts of its cells: the values
\* appended to the six lists, or the first exception in the order of the
\* lines. tr('td')[k] raises IndexError when the row has no such cell.
ParseRow(td) ==
    IF Len(td) < 3 THEN [raised |-> "IndexError", row |-> <<>>]
    ELSE IF GradeMid(td[3]).raised # NoError
    THEN [raised |-> GradeMid(td[3]).raised, row |-> <<>>]
    ELSE IF Len(td) < 4 THEN [raised |-> "IndexError", row |-> <<>>]
    ELSE IF GradeMin(td[4]).raised # NoError
    THEN [raised |-> GradeMin(td[4]).raised, row |-> <<>>]
    ELSE IF Len(td) < 5 THEN [raised |-> "IndexError", row |-> <<>>]
    ELSE IF Percentile(td[5]).raised # NoError
    THEN [raised |-> Percentile(td[5]).raised, row |-> <<>>]
    ELSE IF Len(td) < 6 THEN [raised |-> "IndexError", row |-> <<>>]
    ELSE IF Gpa(td[6]).raised # NoError
    THEN [raised |-> Gpa(td[6]).raised, row |-> <<>>]
    ELSE [raised |-> NoError,
          row |-> <<[name |-> td[1], position |-> td[2],
                     grade_mid |-> GradeMid(td[3]).value,
                     grade_min |-> GradeMin(td[4]).value,
                     percentile |-> Percentile(td[5]).value,
                     gpa |-> Gpa(td[6]).value]>>]

\* for tr in soup('table')[0]('tr')[1:]: rows is the list from the second tr
\* on, done the rows appended so far.
RECURSIVE ParseRows(_, _)
ParseRows(rows, done) ==
    IF rows = <<>> THEN [raised |-> NoError, rows |-> done]
    ELSE IF ParseRow(Head(rows)).raised # NoError
    THEN [raised |-> ParseRow(Head(rows)).raised, rows |-> <<>>]
    ELSE ParseRows(Tail(rows), done \o ParseRow(Head(rows)).row)

\* Lines 152-182 on the filtered page: the data frame or the exception.
ParseTable(doc) ==
    IF doc.tables = <<>> THEN [raised |-> "IndexError", rows |-> <<>>]
    ELSE ParseRows(Tail(doc.tables[1]), <<>>)

UnknownRating == "ValueError: Irregular rating page or incorrect rating name"
InvalidCourse == "ValueError: Incorrect course value"

\* Lines 135-138 without the else of the for: url_from stays None when no
\* option has the text.
RECURSIVE FindRating_noElse(_, _)
FindRating_noElse(options, rating_name) ==
    IF options = <<>> THEN [raised |-> NoError, value |-> <<"None">>]
    ELSE IF Head(options).text = rating_name
    THEN [raised |-> NoError, value |-> Head(options).value]
    ELSE FindRating_noElse(Tail(options), rating_name)

\* Lines 135-140: the value of the first option whose text is rating_name.
RECURSIVE FindRating(_, _)
FindRating(options, rating_name) ==
    IF options = <<>> THEN [raised |-> UnknownRating, value |-> <<>>]
    ELSE IF Head(options).text = rating_name
    THEN [raised |-> NoError, value |-> Head(options).value]
    ELSE FindRating(Tail(options), rating_name)

\* Lines 135-140: soup('div', 'first_child last_child')[0]('select')[0].
ResolveRating(doc, rating_name) ==
    IF ~doc.container \/ doc.selects = <<>>
    THEN [raised |-> "IndexError", value |-> <<>>]
    ELSE FindRating(doc.selects[1], rating_name)

\* Lines 141-145: int(option['value']) of each option in turn, until one
\* equals course.
RECURSIVE FindCourse(_, _)
FindCourse(options, course) ==
    IF options = <<>> THEN InvalidCourse
    ELSE IF ~IntParses(Head(options).value) THEN "ValueError"
    ELSE IF Decimal(Head(options).value) = course THEN NoError
    ELSE FindCourse(Tail(options), course)

\* Lines 141-145: ...('select')[1].
CheckCourse(doc, course) ==
    IF Len(doc.selects) < 2 THEN "IndexError"
    ELSE FindCourse(doc.selects[2], course)

\* The urls of lines 129 and 147.
IndexUrl(code) == [code |-> code, query |-> <<>>]
FilteredUrl(code, url_from, course) ==
    [code |-> code, query |-> <<[from |-> url_from, course |-> course]>>]

\* How a __call__ ended: the urls fetched, the exception raised, whether a
\* data frame was returned, and its rows.
Outcome(urls, error, returned, rows) ==
    [fetched |-> urls, raised |-> error, returned |-> returned, res |-> rows]

\* Lines 147-182, for the response filtered to the second request.
FetchTable(code, url_from, course, filtered) ==
    IF parser(filtered) # NoError
    THEN Outcome(<<IndexUrl(code), FilteredUrl(code, url_from, course)>>,
                 parser(filtered), FALSE, <<>>)
    ELSE Outcome(<<IndexUrl(code), FilteredUrl(code, url_from, course)>>,
                 ParseTable(filtered).raised,
                 ParseTable(filtered).raised = NoError,
                 ParseTable(filtered).rows)

\* Lines 141-146 once lines 135-140 gave from: the course is looked for only
\* when the rating was found.
ThenCourse(from, index, course) ==
    IF from.raised # NoError THEN from
    ELSE IF CheckCourse(index, course) # NoError
    THEN [raised |-> CheckCourse(index, course), value |-> <<>>]
    ELSE from

\* Lines 128-146, for the response index to the first request: url_from, or
\* the exception raised before the second request.
Query(index, rating_name, course) ==
    IF parser(index) # NoError THEN [raised |-> parser(index), value |-> <<>>]
    ELSE ThenCourse(ResolveRating(index, rating_name), index, course)

-----------------------------------------------------------------------------
(* The pages of a rating and one __call__ *)

Option(text, value) == [text |-> text, value |-> value]

\* The select of the ratings: two ratings; one text twice; no option.
RatingSelects ==
    { <<Option(<<"Tekushchij">>, <<"1", "0", "1">>),
        Option(<<"Kumulyativnyj">>, <<"1", "0", "2">>)>>,
      <<Option(<<"Tekushchij">>, <<"1", "0", "1">>),
        Option(<<"Tekushchij">>, <<"1", "0", "3">>)>>,
      <<>> }

\* The select of the courses: the first course only; two courses; an option
\* whose value is no number before the first course.
CourseSelects ==
    { <<Option(<<"1", SP, "kurs">>, <<"1">>)>>,
      <<Option(<<"1", SP, "kurs">>, <<"1">>), Option(<<"2", SP, "kurs">>, <<"2">>)>>,
      <<Option(<<"Vse">>, <<"a", "l", "l">>), Option(<<"1", SP, "kurs">>, <<"1">>)>> }

\* What the first request can answer: a status other than 200; a document
\* without div.first_child.last_child; one with the select of the ratings
\* only; one with both selects.
IndexPages ==
    {[status |-> NOT_FOUND, container |-> FALSE, selects |-> <<>>],
     [status |-> OK_RESPONSE_STATUS, container |-> FALSE, selects |-> <<>>]}
    \cup {[status |-> OK_RESPONSE_STATUS, container |-> TRUE, selects |-> <<r>>] :
            r \in RatingSelects}
    \cup {[status |-> OK_RESPONSE_STATUS, container |-> TRUE, selects |-> <<r, c>>] :
            r \in RatingSelects, c \in CourseSelects}

\* The rating asked for: in the select; in it with another value; one whose
\* text differs from an option's by a trailing space.
RatingNames == {<<"Tekushchij">>, <<"Kumulyativnyj">>, <<"Tekushchij", SP>>}

MaxCourse == 2

HeaderRow ==
    <<<<"Student">>, <<"Poziciya">>, <<"Srednij">>, <<"Min">>, <<"Percentil">>, <<"GPA">>>>

\* Rows with cells the conversions take: an empty minimal grade; an empty
\* mean grade; whole numbers and a position that is no number.
GoodRows ==
    { <<<<"Ivanov">>, <<"1">>, <<"9", ".", "5">>, <<>>, <<"9", "5", "%">>, <<"9", ".", "0">>>>,
      <<<<"Petrov">>, <<"2">>, <<>>, <<"7">>, <<"8", "7", "%">>, <<"8", ".", "1">>>>,
      <<<<"Sidorov">>, <<"3", "-", "4">>, <<"8">>, <<"1", "0">>, <<"5", "%">>, <<"7">>>> }

\* Rows they do not: a mean grade that is no number; five cells.
BadRows ==
    { <<<<"Orlov">>, <<"5">>, <<"n", "/", "a">>, <<"4">>, <<"1", "0", "%">>, <<"6", ".", "0">>>>,
      <<<<"Lvov">>, <<"6">>, <<"6", ".", "2">>, <<"5">>, <<"2", "0", "%">>>> }

MaxRows == 2

\* What the second request can answer: a status other than 200; a document
\* with no table; one whose first table has the header row and up to MaxRows
\* rows.
FilteredPages ==
    {[status |-> NOT_FOUND, tables |-> <<>>],
     [status |-> OK_RESPONSE_STATUS, tables |-> <<>>]}
    \cup {[status |-> OK_RESPONSE_STATUS, tables |-> <<<<HeaderRow>> \o rows>>] :
            rows \in StringsUpTo(GoodRows \cup BadRows, MaxRows)}

\* The response to a request that was not made.
NoPage == [status |-> 0, tables |-> <<>>]

\* The codes HseRatingGetter.__init__ can leave in self.url_code: the codes
\* of the catalog.
Codes == {"econ", "law"}

InitRating ==
    /\ url_code \in Codes
    /\ rating = NoCall
    /\ ScraperIdle
    /\ SanitizeIdle

\* The record of a __call__ and how it ended.
Called(rating_name, course, index, filtered, out) ==
    [called |-> TRUE, rating_name |-> rating_name, course |-> course,
     index |-> index, filtered |-> filtered,
     fetched |-> out.fetched, raised |-> out.raised,
     returned |-> out.returned, res |-> out.res]

\* __call__(rating_name, course): the whole call, for the responses its
\* requests get; the second request is made only when lines 128-146 raised
\* nothing. The getter keeps nothing of a call, so one call from the state
\* __init__ left is every call.
RatingCall ==
    /\ ~rating.called
    /\ \E rating_name \in RatingNames, course \in 1..MaxCourse, index \in IndexPages :
         \E q \in {Query(index, rating_name, course)} :
           IF q.raised # NoError
           THEN rating' = Called(rating_name, course, index, NoPage,
                                 Outcome(<<IndexUrl(url_code)>>, q.raised, FALSE, <<>>))
           ELSE \E filtered \in FilteredPages :
                  rating' = Called(rating_name, course, index, filtered,
                                   FetchTable(url_code, q.value, course, filtered))
    /\ UNCHANGED <<url_code, scraperVars, sanitizeVars>>

NextRating == RatingCall

SpecRating == InitRating /\ [][NextRating]_vars

\* C6: on an index page with the select of the ratings in which no option has
\* rating_name as its text, __call__ raises the ValueError of line 140,
\* returns no data frame, and has fetched the index page only.
C6_UnknownRatingRaises ==
    (/\ rating.called
     /\ rating.index.status = OK_RESPONSE_STATUS
     /\ rating.index.container
     /\ rating.index.selects # <<>>
     /\ \A k \in 1..Len(rating.index.selects[1]) :
          rating.index.selects[1][k].text # rating.rating_name)
    => /\ rating.raised = UnknownRating
       /\ ~rating.returned
       /\ rating.res = <<>>
       /\ rating.fetched = <<IndexUrl(url_code)>>

\* A call for a name that differs from an option's text by a trailing
\* space, on a page with both selects and the course asked for.
C6_Witness ==
    /\ rating.called
    /\ rating.rating_name = <<"Tekushchij", SP>>
    /\ Len(rating.index.selects) = 2
    /\ \E k \in 1..Len(rating.index.selects[1]) :
         rating.index.selects[1][k].text = <<"Tekushchij">>
    /\ rating.index.selects[2] # <<>>
    /\ rating.raised = UnknownRating
    /\ Len(rating.fetched) = 1

\* A row of six cells the conversions of lines 159-170 take.
WellFormedRow(td) ==
    /\ Len(td) = 6
    /\ td[3] = <<>> \/ FloatParses(td[3])
    /\ td[4] = <<>> \/ IntParses(td[4])
    /\ Len(td[5]) >= 2
    /\ FloatParses(DropLast(td[5]))
    /\ FloatParses(td[6])

\* C7: for a filtered page whose first table has a header row and n rows of
\* well-formed cells, __call__ returns n rows in the order of the page; an
\* empty mean or minimal grade gives NaN, a minimal grade its integer, and
\* the percentile the number left of its last character ("87%" gives 87.0).
C7_RowsParsed ==
    (/\ rating.called
     /\ Len(rating.fetched) = 2
     /\ rating.filtered.status = OK_RESPONSE_STATUS
     /\ rating.filtered.tables # <<>>
     /\ \A k \in 2..Len(rating.filtered.tables[1]) :
          WellFormedRow(rating.filtered.tables[1][k]))
    => /\ rating.returned
       /\ rating.raised = NoError
       /\ Len(rating.res) = Len(rating.filtered.tables[1]) - 1
       /\ \A k \in 1..Len(rating.res) :
            \E td \in {rating.filtered.tables[1][k + 1]} : \E row \in {rating.res[k]} :
              /\ row.name = td[1]
              /\ row.position = td[2]
              /\ td[3] = <<>> => row.grade_mid = NaN
              /\ td[3] = <<"9", ".", "5">> => row.grade_mid = Float(950)
              /\ td[4] = <<>> => row.grade_min = NaN
              /\ td[4] # <<>> => row.grade_min = Integer(Decimal(td[4]))
              /\ td[4] = <<"1", "0">> => row.grade_min = Integer(10)
              /\ row.percentile = FloatOf(DropLast(td[5]))
              /\ td[5] = <<"8", "7", "%">> => row.percentile = Float(87 * FloatScale)

\* Two rows returned in the order of the page: the first with an empty
\* minimal grade, the second with an empty mean grade and "87%".
C7_Witness ==
    /\ rating.returned
    /\ Len(rating.res) = 2
    /\ rating.res[1].name = <<"Ivanov">>
    /\ rating.res[1].grade_min = NaN
    /\ rating.res[2].name = <<"Petrov">>
    /\ rating.res[2].grade_mid = NaN
    /\ rating.res[2].grade_min = Integer(7)
    /\ rating.res[2].percentile = Float(8700)

====
